---- MODULE Spec2Model ----
(***************************************************************************)
(* EnumHandler (src/enumhandler/__init__.py): one handler per member of an *)
(* enumeration, wired at class-definition time by __init_subclass__, with  *)
(* per-type instance caching in __new__.                                   *)
(*                                                                         *)
(* A handler type is defined by a class statement: the class body runs     *)
(* (each decorated method is one EnumHandler.register call on the open     *)
(* base class), then __init_subclass__ harvests the annotated methods in   *)
(* inspect.getmembers order (sorted by name), validates them and warms the *)
(* cache.  The steps of __init_subclass__ are separate actions so that the *)
(* states inside a definition are visible; nothing else runs between them  *)
(* (the program is single-threaded).                                       *)
(***************************************************************************)
EXTENDS Integers, Sequences, FiniteSets, TLC

\* ----------------------------------------------------------------- bounds
\* Number of members of the enumeration E the handler types are defined over.
EnumSize == 2
\* Size of a class body: registered values plus undecorated methods.
MaxRegs == 3
\* Number of successful explicit construction calls T(member).
MaxConstructs == 2

\* ------------------------------------------------------------ the domain
\* The enumeration iterated from its last member to its first.
enum_reversed == [i \in 1..EnumSize |-> EnumSize + 1 - i]

\* The members of E, in definition order (the order `for member in enum` uses).
enum == [i \in 1..EnumSize |-> i]
Members == {enum[i] : i \in 1..EnumSize}
\* Members of a different enumeration (Capitals.TOKYO in the tests).
OtherEnum == {-1, 0}
Values == Members \cup OtherEnum

CacheStrategy == {"NO_CACHE", "EAGER_CACHE", "LAZY_CACHE"}

\* The handler types a program defines, in the order of their class statements.
TypeIds == {"T", "U"}

\* self._handler before __init__ has bound it (the attribute is only annotated).
NoHandler == 0

\* The enum_values tuples a register call can be given.
Registrations == UNION {[1..l -> Values] : l \in 1..MaxRegs}

\* What a call of the instance is given, and what the handler body then does.
CallInputs ==
    { [args |-> <<>>, kwargs |-> {}],
      [args |-> <<3, 4, 5>>, kwargs |-> {<<"key", 1>>}] }
HandlerBehaviours ==
    { [kind |-> "return", value |-> "Red"],
      [kind |-> "raise", value |-> "AttributeError"],
      [kind |-> "raise", value |-> "ValueError"] }

VARIABLES
    plan,             \* class statements still to run (type ids, in order)
    pc,               \* "idle", or the step of the class statement in progress
    cur,              \* the type whose class statement is in progress
    idx,              \* loop position inside __init_subclass__
    status,           \* per type: "absent", "defining", "defined", "failed"
    namespace,        \* per type: its callable members, in getmembers order
    base_final,       \* EnumHandler._final
    _final,           \* per type: cls._final
    _handlers,        \* per type: cls._handlers
    _cache_strategy,  \* per type: cls._cache_strategy
    _instance_cache,  \* per type: cls._instance_cache
    heap,             \* the live instances; an instance is its index
    log,              \* the successful explicit construction calls, in order
    last              \* what the most recent operation did

vars == <<plan, pc, cur, idx, status, namespace, base_final, _final, _handlers,
          _cache_strategy, _instance_cache, heap, log, last>>

clsvars == <<_final, _handlers, _cache_strategy, _instance_cache>>

\* ------------------------------------------------------------- outcomes
NoInvocation == <<>>

Outcome(op, cls, kind, exc, listed, obj) ==
    [op |-> op, cls |-> cls, kind |-> kind, exc |-> exc, listed |-> listed,
     obj |-> obj, input |-> <<>>, invoked |-> NoInvocation, handler_did |-> <<>>,
     result |-> <<>>]

Returned(op, cls, obj) == Outcome(op, cls, "return", "", {}, obj)
Raised(op, cls, exc, listed) == Outcome(op, cls, "raise", exc, listed, 0)

\* The three InvalidEnumHandler messages of __init_subclass__.
DuplicateHandler == "InvalidEnumHandler: Multiple handlers defined"
ForeignMember == "InvalidEnumHandler: handler registered for non-members"
NonExhaustive == "InvalidEnumHandler: not exhaustive"
FinalizedType == "RuntimeError: can't register on a finalized class"
AbstractDispatch == "NotImplementedError: must be subclassed and instantiated"

\* ------------------------------------------------------------- register
\* register without the test of cls._final.
register_ignoresFinal(cls_final, enum_values) ==
    [exc |-> "", annotated |-> TRUE, handles |-> enum_values]

\* EnumHandler.register: refuses on a finalized class, otherwise returns the
\* decorator that sets fn._handles = enum_values.
register(cls_final, enum_values) ==
    IF cls_final
    THEN [exc |-> FinalizedType, annotated |-> FALSE, handles |-> <<>>]
    ELSE [exc |-> "", annotated |-> TRUE, handles |-> enum_values]

\* A method the class body declares without the decorator: no _handles.
PlainMethod == [annotated |-> FALSE, handles |-> <<>>]

BodySize(ns) ==
    LET cost(m) == IF m.annotated THEN Len(m.handles) ELSE 1
        sum[i \in 0..Len(ns)] == IF i = 0 THEN 0 ELSE sum[i - 1] + cost(ns[i])
    IN sum[Len(ns)]

\* ---------------------------------------------------- __init_subclass__
\* The inner loop skipping a value that is already in the table: the earlier
\* registration wins and no duplicate is reported.
RECURSIVE HarvestLoop_keepFirst(_, _, _)
HarvestLoop_keepFirst(hs, fn, vals) ==
    IF vals = <<>>
    THEN [dup |-> {}, handlers |-> hs]
    ELSE IF Head(vals) \in DOMAIN hs
         THEN HarvestLoop_keepFirst(hs, fn, Tail(vals))
         ELSE HarvestLoop_keepFirst(hs @@ (Head(vals) :> fn), fn, Tail(vals))

\* The inner loop without the duplicate test: the later registration wins.
RECURSIVE HarvestLoop_overwrite(_, _, _)
HarvestLoop_overwrite(hs, fn, vals) ==
    IF vals = <<>>
    THEN [dup |-> {}, handlers |-> hs]
    ELSE HarvestLoop_overwrite(
             [v \in DOMAIN hs \cup {Head(vals)} |->
                 IF v = Head(vals) THEN fn ELSE hs[v]],
             fn, Tail(vals))

\* The inner loop over method._handles: insert, or stop at a value that is
\* already in the table.  A method without _handles is skipped (AttributeError).
RECURSIVE HarvestLoop(_, _, _)
HarvestLoop(hs, fn, vals) ==
    IF vals = <<>>
    THEN [dup |-> {}, handlers |-> hs]
    ELSE IF Head(vals) \in DOMAIN hs
         THEN [dup |-> {Head(vals)}, handlers |-> hs]
         ELSE HarvestLoop(hs @@ (Head(vals) :> fn), fn, Tail(vals))

HarvestMethod(hs, fn, method) ==
    IF method.annotated
    THEN HarvestLoop(hs, fn, method.handles)
    ELSE [dup |-> {}, handlers |-> hs]

\* The foreign-member test dropped.
unexpected_unchecked(hs) == {}

\* The foreign-member test giving way to the exhaustiveness test: it reports
\* nothing while some member of the enum has no handler.
unexpected_afterMissing(hs) ==
    IF \E entry \in Members : entry \notin DOMAIN hs
    THEN {}
    ELSE {key \in DOMAIN hs : key \notin Members}

unexpected(hs) == {key \in DOMAIN hs : key \notin Members}

\* The exhaustiveness test dropped, and the test with its condition inverted.
missing_unchecked(hs) == {}

missing_inverted(hs) == {entry \in Members : entry \in DOMAIN hs}

missing(hs) == {entry \in Members : entry \notin DOMAIN hs}

\* The outer loop `for method in getmembers(cls)`, taking the callables of the
\* body ns in the order given by the sequence of positions `order`; a callable
\* is identified by its position in ns.  Stops at the first duplicate.
RECURSIVE HarvestAll(_, _, _)
HarvestAll(hs, ns, order) ==
    IF order = <<>>
    THEN [dup |-> {}, handlers |-> hs]
    ELSE LET h == HarvestMethod(hs, Head(order), ns[Head(order)])
         IN IF h.dup # {}
            THEN h
            ELSE HarvestAll(h.handlers, ns, Tail(order))

\* The validation of __init_subclass__ as one function of the body and of the
\* order getmembers yields it in: the error raised ("" for none), the values
\* the error lists, and the handler table as the checks leave it.
__init_subclass__(ns, order) ==
    LET h == HarvestAll(<<>>, ns, order)
    IN IF h.dup # {}
       THEN [exc |-> DuplicateHandler, listed |-> h.dup, handlers |-> h.handlers]
       ELSE IF unexpected(h.handlers) # {}
       THEN [exc |-> ForeignMember, listed |-> unexpected(h.handlers),
             handlers |-> h.handlers]
       ELSE IF missing(h.handlers) # {}
       THEN [exc |-> NonExhaustive, listed |-> missing(h.handlers),
             handlers |-> h.handlers]
       ELSE [exc |-> "", listed |-> {}, handlers |-> h.handlers]

\* ------------------------------------------------- __new__ and __init__
\* __init__ binding the handler of some key of the table, not of enum_element.
init_wrongHandler(hs, hp, self, enum_element) ==
    IF enum_element \notin DOMAIN hs
    THEN [exc |-> "KeyError", heap |-> hp]
    ELSE LET k == CHOOSE k \in DOMAIN hs : \A j \in DOMAIN hs : k <= j
         IN [exc |-> "", heap |-> [hp EXCEPT ![self].handler = hs[k]]]

__init__(hs, hp, self, enum_element) ==
    IF enum_element \notin DOMAIN hs
    THEN [exc |-> "KeyError", heap |-> hp]
    ELSE [exc |-> "", heap |-> [hp EXCEPT ![self].handler = hs[enum_element]]]

\* __new__ that never looks the cache up: under a caching strategy it builds a
\* new instance on every call and stores it over the old one.
new_alwaysFresh(strategy, cache, hs, hp, cls, enum_element) ==
    LET instance == Len(hp) + 1
        fresh == Append(hp, [cls |-> cls, handler |-> NoHandler])
    IN IF strategy = "NO_CACHE"
       THEN [exc |-> "", obj |-> instance, heap |-> fresh, cache |-> cache]
       ELSE IF enum_element \notin DOMAIN hs
            THEN [exc |-> "KeyError", obj |-> 0, heap |-> hp, cache |-> cache]
            ELSE [exc |-> "", obj |-> instance,
                  heap |-> [fresh EXCEPT ![instance].handler = hs[enum_element]],
                  cache |-> [v \in DOMAIN cache \cup {enum_element} |->
                               IF v = enum_element THEN instance ELSE cache[v]]]

\* __new__ that builds the instance on a miss but does not store it.
new_neverStores(strategy, cache, hs, hp, cls, enum_element) ==
    LET instance == Len(hp) + 1
        fresh == Append(hp, [cls |-> cls, handler |-> NoHandler])
    IN IF strategy = "NO_CACHE"
       THEN [exc |-> "", obj |-> instance, heap |-> fresh, cache |-> cache]
       ELSE IF enum_element \in DOMAIN cache
            THEN [exc |-> "", obj |-> cache[enum_element], heap |-> hp,
                  cache |-> cache]
            ELSE IF enum_element \notin DOMAIN hs
                 THEN [exc |-> "KeyError", obj |-> 0, heap |-> hp,
                       cache |-> cache]
                 ELSE [exc |-> "", obj |-> instance,
                       heap |-> [fresh EXCEPT ![instance].handler =
                                    hs[enum_element]],
                       cache |-> cache]

\* __new__ without the NO_CACHE test: every strategy caches.
new_alwaysCaches(strategy, cache, hs, hp, cls, enum_element) ==
    LET instance == Len(hp) + 1
        fresh == Append(hp, [cls |-> cls, handler |-> NoHandler])
    IN IF enum_element \in DOMAIN cache
       THEN [exc |-> "", obj |-> cache[enum_element], heap |-> hp,
             cache |-> cache]
       ELSE IF enum_element \notin DOMAIN hs
            THEN [exc |-> "KeyError", obj |-> 0, heap |-> hp, cache |-> cache]
            ELSE [exc |-> "", obj |-> instance,
                  heap |-> [fresh EXCEPT ![instance].handler = hs[enum_element]],
                  cache |-> cache @@ (enum_element :> instance)]

\* __new__ storing the new instance in the cache before initialising it, so
\* that an instance whose __init__ raised stays cached.
new_storesBeforeInit(strategy, cache, hs, hp, cls, enum_element) ==
    LET instance == Len(hp) + 1
        fresh == Append(hp, [cls |-> cls, handler |-> NoHandler])
        stored == cache @@ (enum_element :> instance)
    IN IF strategy = "unset"
       THEN [exc |-> "AttributeError", obj |-> 0, heap |-> hp, cache |-> cache]
       ELSE IF strategy = "NO_CACHE"
       THEN [exc |-> "", obj |-> instance, heap |-> fresh, cache |-> cache]
       ELSE IF enum_element \in DOMAIN cache
            THEN [exc |-> "", obj |-> cache[enum_element], heap |-> hp,
                  cache |-> cache]
            ELSE LET r == __init__(hs, fresh, instance, enum_element)
                 IN IF r.exc # ""
                    THEN [exc |-> r.exc, obj |-> 0, heap |-> fresh,
                          cache |-> stored]
                    ELSE [exc |-> "", obj |-> instance, heap |-> r.heap,
                          cache |-> stored]

__new__(strategy, cache, hs, hp, cls, enum_element) ==
    LET instance == Len(hp) + 1
        fresh == Append(hp, [cls |-> cls, handler |-> NoHandler])
    IN IF strategy = "unset"
       THEN [exc |-> "AttributeError", obj |-> 0, heap |-> hp, cache |-> cache]
       ELSE IF strategy = "NO_CACHE"
       THEN [exc |-> "", obj |-> instance, heap |-> fresh, cache |-> cache]
       ELSE IF enum_element \in DOMAIN cache
            THEN [exc |-> "", obj |-> cache[enum_element], heap |-> hp,
                  cache |-> cache]
            ELSE LET r == __init__(hs, fresh, instance, enum_element)
                 IN IF r.exc # ""
                    THEN [exc |-> r.exc, obj |-> 0, heap |-> hp, cache |-> cache]
                    ELSE [exc |-> "", obj |-> instance, heap |-> r.heap,
                          cache |-> cache @@ (enum_element :> instance)]

\* cls(enum_element): __new__, then __init__ on the instance it returned.  An
\* instance whose construction raised is not kept.
construct(strategy, cache, hs, hp, cls, enum_element) ==
    LET n == __new__(strategy, cache, hs, hp, cls, enum_element)
    IN IF n.exc # ""
       THEN n
       ELSE LET r == __init__(hs, n.heap, n.obj, enum_element)
            IN IF r.exc # ""
               THEN [exc |-> r.exc, obj |-> 0, heap |-> hp, cache |-> n.cache]
               ELSE [exc |-> "", obj |-> n.obj, heap |-> r.heap,
                     cache |-> n.cache]

\* ------------------------------------------------------------- __call__
\* __call__ forwarding only the positional arguments.
Invocation_dropsKwargs(hp, self, input) ==
    [fn |-> hp[self].handler, self |-> self, args |-> input.args,
     kwargs |-> {}]

\* What __call__ passes to the bound handler.
Invocation(hp, self, input) ==
    [fn |-> hp[self].handler, self |-> self, args |-> input.args,
     kwargs |-> input.kwargs]

\* What __call__ makes of what the handler did: an AttributeError becomes
\* NotImplementedError, anything else passes through.
__call__(handler_did) ==
    IF handler_did.kind = "raise" /\ handler_did.value = "AttributeError"
    THEN [kind |-> "raise", value |-> AbstractDispatch]
    ELSE handler_did

\* ----------------------------------------------------------------- Init
Init ==
    /\ plan = <<"T">>
    /\ pc = "idle"
    /\ cur = "T"
    /\ idx = 0
    /\ status = [t \in TypeIds |-> "absent"]
    /\ namespace = [t \in TypeIds |-> <<>>]
    /\ base_final = FALSE
    /\ _final = [t \in TypeIds |-> FALSE]
    /\ _handlers = [t \in TypeIds |-> <<>>]
    /\ _cache_strategy = [t \in TypeIds |-> "unset"]
    /\ _instance_cache = [t \in TypeIds |-> <<>>]
    /\ heap = <<>>
    /\ log = <<>>
    /\ last = Outcome("start", "EnumHandler", "none", "", {}, 0)

\* -------------------------------------------------------- class statement
\* `class T(EnumHandler, enum=E, cache=...)`: the body starts to run.
ClassBegin ==
    /\ pc = "idle"
    /\ plan # <<>>
    /\ pc' = "body"
    /\ cur' = Head(plan)
    /\ plan' = Tail(plan)
    /\ status' = [status EXCEPT ![Head(plan)] = "defining"]
    /\ last' = Outcome("class", Head(plan), "none", "", {}, 0)
    /\ UNCHANGED <<idx, namespace, base_final, clsvars, heap, log>>

\* `@EnumHandler.register(*enum_values)` on a method of the body.
BodyRegister ==
    /\ pc = "body"
    /\ \E enum_values \in Registrations :
         /\ BodySize(namespace[cur]) + Len(enum_values) <= MaxRegs
         /\ LET r == register(base_final, enum_values)
            IN IF r.exc # ""
               THEN /\ pc' = "idle"
                    /\ status' = [status EXCEPT ![cur] = "failed"]
                    /\ last' = Raised("register", "EnumHandler", r.exc, {})
                    /\ UNCHANGED namespace
               ELSE /\ namespace' = [namespace EXCEPT ![cur] =
                          Append(@, [annotated |-> r.annotated,
                                     handles |-> r.handles])]
                    /\ last' = Returned("register", "EnumHandler", 0)
                    /\ UNCHANGED <<pc, status>>
    /\ UNCHANGED <<plan, cur, idx, base_final, clsvars, heap, log>>

\* A method of the body without the decorator.
BodyPlainMethod ==
    /\ pc = "body"
    /\ BodySize(namespace[cur]) + 1 <= MaxRegs
    /\ namespace' = [namespace EXCEPT ![cur] = Append(@, PlainMethod)]
    /\ last' = Outcome("def", cur, "none", "", {}, 0)
    /\ UNCHANGED <<plan, pc, cur, idx, status, base_final, clsvars, heap, log>>

\* The exception leaves the class statement: the type is never bound to a name.
DefinitionFails(exc, listed) ==
    /\ pc' = "idle"
    /\ status' = [status EXCEPT ![cur] = "failed"]
    /\ last' = Raised("__init_subclass__", cur, exc, listed)

\* The class statement ends normally: the type is usable from here on.
DefinitionDone ==
    /\ pc' = "idle"
    /\ status' = [status EXCEPT ![cur] = "defined"]
    /\ last' = Returned("__init_subclass__", cur, 0)

\* __init_subclass__ setting _final on EnumHandler itself instead of on cls.
InitSubclassBegin_finalizesBase ==
    /\ pc = "body"
    /\ \E cache \in CacheStrategy :
         _cache_strategy' = [_cache_strategy EXCEPT ![cur] = cache]
    /\ base_final' = TRUE
    /\ _handlers' = [_handlers EXCEPT ![cur] = <<>>]
    /\ _instance_cache' = [_instance_cache EXCEPT ![cur] = <<>>]
    /\ pc' = "harvest"
    /\ idx' = 1
    /\ last' = Outcome("__init_subclass__", cur, "none", "", {}, 0)
    /\ UNCHANGED <<plan, cur, status, namespace, _final, heap, log>>

\* End of the body: the type is created and __init_subclass__ starts by setting
\* the four class attributes.
InitSubclassBegin ==
    /\ pc = "body"
    /\ \E cache \in CacheStrategy :
         _cache_strategy' = [_cache_strategy EXCEPT ![cur] = cache]
    /\ _final' = [_final EXCEPT ![cur] = TRUE]
    /\ _handlers' = [_handlers EXCEPT ![cur] = <<>>]
    /\ _instance_cache' = [_instance_cache EXCEPT ![cur] = <<>>]
    /\ pc' = "harvest"
    /\ idx' = 1
    /\ last' = Outcome("__init_subclass__", cur, "none", "", {}, 0)
    /\ UNCHANGED <<plan, cur, status, namespace, base_final, heap, log>>

\* One round of `for method in getmembers(cls)`.
HarvestStep ==
    /\ pc = "harvest"
    /\ idx <= Len(namespace[cur])
    /\ LET h == HarvestMethod(_handlers[cur], idx, namespace[cur][idx])
       IN /\ _handlers' = [_handlers EXCEPT ![cur] = h.handlers]
          /\ IF h.dup # {}
             THEN /\ DefinitionFails(DuplicateHandler, h.dup)
                  /\ UNCHANGED idx
             ELSE /\ idx' = idx + 1
                  /\ UNCHANGED <<pc, status, last>>
    /\ UNCHANGED <<plan, cur, namespace, base_final, _final, _cache_strategy,
                   _instance_cache, heap, log>>

\* `if unexpected := {...}: raise`.
CheckUnexpected ==
    /\ pc = "harvest"
    /\ idx > Len(namespace[cur])
    /\ IF unexpected(_handlers[cur]) # {}
       THEN DefinitionFails(ForeignMember, unexpected(_handlers[cur]))
       ELSE /\ pc' = "missing"
            /\ UNCHANGED <<status, last>>
    /\ UNCHANGED <<plan, cur, idx, namespace, base_final, clsvars, heap, log>>

\* `if missing := {...}: raise`, then the test of the cache strategy.
CheckMissing ==
    /\ pc = "missing"
    /\ IF missing(_handlers[cur]) # {}
       THEN /\ DefinitionFails(NonExhaustive, missing(_handlers[cur]))
            /\ UNCHANGED idx
       ELSE IF _cache_strategy[cur] = "EAGER_CACHE"
            THEN /\ pc' = "warmup"
                 /\ idx' = 1
                 /\ UNCHANGED <<status, last>>
            ELSE /\ DefinitionDone
                 /\ UNCHANGED idx
    /\ UNCHANGED <<plan, cur, namespace, base_final, clsvars, heap, log>>

\* One round of `for member in enum: cls(member)`; its result is dropped.
WarmupStep ==
    /\ pc = "warmup"
    /\ idx <= EnumSize
    /\ LET c == construct(_cache_strategy[cur], _instance_cache[cur],
                          _handlers[cur], heap, cur, enum[idx])
       IN IF c.exc # ""
          THEN /\ DefinitionFails(c.exc, {enum[idx]})
               /\ heap' = c.heap
               /\ _instance_cache' = [_instance_cache EXCEPT ![cur] = c.cache]
               /\ UNCHANGED idx
          ELSE /\ heap' = c.heap
               /\ _instance_cache' = [_instance_cache EXCEPT ![cur] = c.cache]
               /\ idx' = idx + 1
               /\ UNCHANGED <<pc, status, last>>
    /\ UNCHANGED <<plan, cur, namespace, base_final, _final, _handlers,
                   _cache_strategy, log>>

WarmupDone ==
    /\ pc = "warmup"
    /\ idx > EnumSize
    /\ DefinitionDone
    /\ UNCHANGED <<plan, cur, idx, namespace, base_final, clsvars, heap, log>>

\* ------------------------------------------------- use of a defined type
\* T(enum_element), called by the program.
Construct ==
    /\ pc = "idle"
    /\ Len(log) < MaxConstructs
    /\ \E t \in TypeIds, enum_element \in Values :
         /\ status[t] = "defined"
         /\ LET c == construct(_cache_strategy[t], _instance_cache[t],
                               _handlers[t], heap, t, enum_element)
            IN IF c.exc # ""
               THEN /\ last' = Raised("construct", t, c.exc, {enum_element})
                    /\ heap' = c.heap
                    /\ _instance_cache' = [_instance_cache EXCEPT ![t] = c.cache]
                    /\ UNCHANGED log
               ELSE /\ heap' = c.heap
                    /\ _instance_cache' = [_instance_cache EXCEPT ![t] = c.cache]
                    /\ log' = Append(log, [cls |-> t, member |-> enum_element,
                                           obj |-> c.obj])
                    /\ last' = Outcome("construct", t, "return", "",
                                       {enum_element}, c.obj)
    /\ UNCHANGED <<plan, pc, cur, idx, status, namespace, base_final, _final,
                   _handlers, _cache_strategy>>

\* instance(*args, **kwargs) on an instance an earlier T(member) returned.
Call ==
    /\ pc = "idle"
    /\ \E n \in 1..Len(log), input \in CallInputs,
          handler_did \in HandlerBehaviours :
         LET self == log[n].obj
             base == Outcome("call", log[n].cls, "return", "",
                             {log[n].member}, self)
             out == __call__(handler_did)
         IN last' = [base EXCEPT !.input = input,
                                 !.invoked = Invocation(heap, self, input),
                                 !.handler_did = handler_did,
                                 !.result = out,
                                 !.kind = out.kind,
                                 !.exc = IF out.kind = "raise"
                                         THEN out.value ELSE ""]
    /\ UNCHANGED <<plan, pc, cur, idx, status, namespace, base_final, clsvars,
                   heap, log>>

\* register that writes the new association into cls._handlers at call time.
Register_extendsTable ==
    /\ pc = "idle"
    /\ \E t \in TypeIds, member \in Members :
         /\ status[t] = "defined"
         /\ _handlers' = [_handlers EXCEPT ![t] =
                [v \in DOMAIN @ \cup {member} |->
                    IF v = member THEN NoHandler ELSE @[v]]]
         /\ last' = Raised("register", t, FinalizedType, {})
    /\ UNCHANGED <<plan, pc, cur, idx, status, namespace, base_final, _final,
                   _cache_strategy, _instance_cache, heap, log>>

\* T.register(*enum_values) on a defined type.
Register ==
    /\ pc = "idle"
    /\ \E t \in TypeIds, member \in Members :
         /\ status[t] = "defined"
         /\ LET r == register(_final[t], <<member>>)
            IN last' = IF r.exc # ""
                       THEN Raised("register", t, r.exc, {})
                       ELSE Returned("register", t, 0)
    /\ UNCHANGED <<plan, pc, cur, idx, status, namespace, base_final, clsvars,
                   heap, log>>

\* EnumHandler.register(*enum_values) outside any class body (a free function
\* is decorated; no class sees it).
RegisterBase ==
    /\ pc = "idle"
    /\ \E member \in Members :
         /\ LET r == register(base_final, <<member>>)
            IN last' = IF r.exc # ""
                       THEN Raised("register", "EnumHandler", r.exc, {})
                       ELSE Returned("register", "EnumHandler", 0)
    /\ UNCHANGED <<plan, pc, cur, idx, status, namespace, base_final, clsvars,
                   heap, log>>

\* EnumHandler(enum_element)(*args, **kwargs): the base class used directly.
\* cls._cache_strategy is not set on the base class, so __new__ raises before
\* any instance exists; were an instance returned, the lookup of self._handler
\* inside __call__ would raise AttributeError.
BaseUse ==
    /\ pc = "idle"
    /\ \E enum_element \in Members :
         LET c == construct("unset", <<>>, <<>>, heap, "EnumHandler",
                            enum_element)
             out == __call__([kind |-> "raise", value |-> "AttributeError"])
         IN last' = IF c.exc # ""
                    THEN Raised("base use", "EnumHandler", c.exc, {})
                    ELSE Raised("base use", "EnumHandler", out.value, {})
    /\ UNCHANGED <<plan, pc, cur, idx, status, namespace, base_final, clsvars,
                   heap, log>>

Next ==
    \/ ClassBegin
    \/ BodyRegister
    \/ BodyPlainMethod
    \/ InitSubclassBegin
    \/ HarvestStep
    \/ CheckUnexpected
    \/ CheckMissing
    \/ WarmupStep
    \/ WarmupDone
    \/ Construct
    \/ Call
    \/ Register
    \/ RegisterBase
    \/ BaseUse

Spec == Init /\ [][Next]_vars

\* ------------------------------------------- two types over the same enum
\* The program of the tests' enums module: two handler types defined one after
\* the other over the same enumeration, each body registering one method per
\* member in enumeration order (a body that stops early fails as
\* non-exhaustive), then used side by side.
InitIso ==
    /\ plan = <<"T", "U">>
    /\ pc = "idle"
    /\ cur = "T"
    /\ idx = 0
    /\ status = [t \in TypeIds |-> "absent"]
    /\ namespace = [t \in TypeIds |-> <<>>]
    /\ base_final = FALSE
    /\ _final = [t \in TypeIds |-> FALSE]
    /\ _handlers = [t \in TypeIds |-> <<>>]
    /\ _cache_strategy = [t \in TypeIds |-> "unset"]
    /\ _instance_cache = [t \in TypeIds |-> <<>>]
    /\ heap = <<>>
    /\ log = <<>>
    /\ last = Outcome("start", "EnumHandler", "none", "", {}, 0)

IsoBodyRegister ==
    /\ BodyRegister
    /\ Len(namespace[cur]) < EnumSize
    /\ namespace'[cur] =
          Append(namespace[cur],
                 [annotated |-> TRUE,
                  handles |-> <<enum[Len(namespace[cur]) + 1]>>])

NextIso ==
    \/ ClassBegin
    \/ IsoBodyRegister
    \/ InitSubclassBegin
    \/ HarvestStep
    \/ CheckUnexpected
    \/ CheckMissing
    \/ WarmupStep
    \/ WarmupDone
    \/ Construct
    \/ Register
    \/ RegisterBase

SpecIso == InitIso /\ [][NextIso]_vars

\* ------------------------------------------------- describing a class body
\* The callables of a body registered for value v, and how often v is named.
CallablesFor(ns, v) ==
    {i \in 1..Len(ns) :
        ns[i].annotated /\ \E j \in 1..Len(ns[i].handles) : ns[i].handles[j] = v}

TimesRegistered(ns, v) ==
    Cardinality({p \in (1..Len(ns)) \X (1..MaxRegs + 1) :
        /\ ns[p[1]].annotated
        /\ p[2] <= Len(ns[p[1]].handles)
        /\ ns[p[1]].handles[p[2]] = v})

RegisteredValues(ns) == {v \in Values : CallablesFor(ns, v) # {}}

\* The class statement of t has just ended, one way or the other.
DefinitionEnded(t) ==
    last.op = "__init_subclass__" /\ last.cls = t /\ last.kind # "none"

Finalized(t) == DefinitionEnded(t) /\ last.kind = "return" /\ status[t] = "defined"

FailedWith(t, exc, listed) ==
    /\ DefinitionEnded(t)
    /\ last.kind = "raise"
    /\ status[t] = "failed"
    /\ last.exc = exc
    /\ last.listed = listed

\* The entries of the log that are construction calls of type t.
CallsOf(t) == {n \in 1..Len(log) : log[n].cls = t}

InstancesOf(t) == {i \in 1..Len(heap) : heap[i].cls = t}

\* ------------------------------------------------------------------ C1
\* C1: once a handler type's definition has finalized successfully, in every
\* later state (whatever register, construct and call operations follow) the
\* keys of its handler table are exactly the members of E, and each member
\* maps to one callable that was registered for it.
C1_HandlerTableIsExactlyE ==
    \A t \in TypeIds :
        status[t] = "defined" =>
            /\ DOMAIN _handlers[t] = Members
            /\ \A m \in Members :
                   _handlers[t][m] \in CallablesFor(namespace[t], m)

C1_Witness ==
    /\ status["T"] = "defined"
    /\ Len(log) >= 2
    /\ last.op = "register"
    /\ last.cls = "T"
    /\ Len(namespace["T"]) >= 2

\* ------------------------------------------------------------------ C2
\* C2: under every cache strategy, calling an instance that T(m) returned
\* runs the handler registered for m with that instance as receiver, the
\* positional arguments unchanged and in order and the keyword arguments,
\* and what the handler returns is what the call returns.
C2_CallRunsRegisteredHandler ==
    (last.op = "call" /\ last.handler_did.kind = "return") =>
        \E m \in Members :
            /\ last.listed = {m}
            /\ last.invoked = [fn |-> _handlers[last.cls][m],
                               self |-> last.obj,
                               args |-> last.input.args,
                               kwargs |-> last.input.kwargs]
            /\ last.kind = "return"
            /\ last.result = last.handler_did

C2_Witness ==
    /\ last.op = "call"
    /\ last.handler_did.kind = "return"
    /\ last.input.args = <<3, 4, 5>>
    /\ last.input.kwargs # {}
    /\ Len(log) >= 2
    /\ log[1].member # log[2].member
    /\ last.obj = log[2].obj
    /\ _handlers[last.cls][log[1].member] # _handlers[last.cls][log[2].member]

\* ------------------------------------------------------------------ C3
NoRepeats(ns) == \A v \in Values : TimesRegistered(ns, v) <= 1

NoForeign(ns) == RegisteredValues(ns) \subseteq Members

Unhandled(ns) == {m \in Members : CallablesFor(ns, m) = {}}

\* C3 as stated: if every member of E has exactly one registered handler the
\* definition finalizes; if some member has none it fails as non-exhaustive,
\* listing exactly the members without a handler.
C3_Original ==
    \A t \in TypeIds :
        DefinitionEnded(t) =>
            /\ (\A m \in Members :
                    Cardinality(CallablesFor(namespace[t], m)) = 1)
                  => Finalized(t)
            /\ Unhandled(namespace[t]) # {}
                  => FailedWith(t, NonExhaustive, Unhandled(namespace[t]))

\* C3: for a definition in which no value is named twice and no value outside
\* E is named: if every member of E has exactly one registered handler the
\* definition finalizes; if some member has none it fails as non-exhaustive,
\* listing exactly the members without a handler.
C3_Exhaustiveness ==
    \A t \in TypeIds :
        (/\ DefinitionEnded(t)
         /\ NoRepeats(namespace[t])
         /\ NoForeign(namespace[t])) =>
            /\ (\A m \in Members :
                    Cardinality(CallablesFor(namespace[t], m)) = 1)
                  => Finalized(t)
            /\ Unhandled(namespace[t]) # {}
                  => FailedWith(t, NonExhaustive, Unhandled(namespace[t]))

C3_Witness ==
    /\ FailedWith("T", NonExhaustive, {enum[EnumSize]})
    /\ NoRepeats(namespace["T"])
    /\ NoForeign(namespace["T"])
    /\ RegisteredValues(namespace["T"]) # {}

\* ------------------------------------------------------------------ C4
\* The registered callables' member sets are pairwise disjoint and cover E.
MemberSet(method) == {method.handles[j] : j \in 1..Len(method.handles)}

DisjointCover(ns) ==
    LET regs == {i \in 1..Len(ns) : ns[i].annotated}
    IN /\ \A i, j \in regs :
             i # j => MemberSet(ns[i]) \cap MemberSet(ns[j]) = {}
       /\ UNION {MemberSet(ns[i]) : i \in regs} = Members

\* C4 as stated: two callables registered for the same member make the
\* definition fail as a duplicate naming that member; N callables registered
\* across N pairwise disjoint member sets whose union is E finalize.
C4_Original ==
    \A t \in TypeIds :
        DefinitionEnded(t) =>
            /\ (\E m \in Members :
                    Cardinality(CallablesFor(namespace[t], m)) >= 2)
                  => \E m \in Members :
                        /\ Cardinality(CallablesFor(namespace[t], m)) >= 2
                        /\ FailedWith(t, DuplicateHandler, {m})
            /\ DisjointCover(namespace[t]) => Finalized(t)

\* C4: two callables registered for the same member make the definition fail
\* as a duplicate naming one value that the definition names more than once;
\* N callables registered across N pairwise disjoint member sets whose union
\* is E, none of them naming a member twice, finalize.
C4_Duplicates ==
    \A t \in TypeIds :
        DefinitionEnded(t) =>
            /\ (\E m \in Members :
                    Cardinality(CallablesFor(namespace[t], m)) >= 2)
                  => \E v \in Values :
                        /\ TimesRegistered(namespace[t], v) >= 2
                        /\ FailedWith(t, DuplicateHandler, {v})
            /\ (DisjointCover(namespace[t]) /\ NoRepeats(namespace[t]))
                  => Finalized(t)

C4_Witness ==
    /\ Finalized("T")
    /\ DisjointCover(namespace["T"])
    /\ NoRepeats(namespace["T"])
    /\ Cardinality({i \in 1..Len(namespace["T"]) :
                       namespace["T"][i].annotated}) >= 2

\* ------------------------------------------------------------------ C5
\* C5 as stated: a definition that names a value outside E fails as a foreign
\* member error listing exactly the named values outside E.
C5_Original ==
    \A t \in TypeIds :
        (DefinitionEnded(t) /\ ~NoForeign(namespace[t])) =>
            FailedWith(t, ForeignMember,
                       RegisteredValues(namespace[t]) \ Members)

\* C5: a definition that names a value outside E, and names no value twice,
\* fails as a foreign member error listing exactly the named values outside E.
C5_ForeignMembers ==
    \A t \in TypeIds :
        (/\ DefinitionEnded(t)
         /\ ~NoForeign(namespace[t])
         /\ NoRepeats(namespace[t])) =>
            FailedWith(t, ForeignMember,
                       RegisteredValues(namespace[t]) \ Members)

C5_Witness ==
    /\ FailedWith("T", ForeignMember, OtherEnum)
    /\ Unhandled(namespace["T"]) # {}
    /\ RegisteredValues(namespace["T"]) \cap Members # {}

\* ------------------------------------------------------------------ C6
\* C6: on a finalized handler type, whatever its cache strategy and whatever
\* has happened since its definition, every register call raises the
\* finalized-class error and returns no decorator.
C6_RegisterOnFinalizedFails ==
    /\ \A t \in TypeIds :
           status[t] = "defined" =>
               \A enum_values \in {<<v>> : v \in Values} \cup {<<>>} :
                   /\ register(_final[t], enum_values).exc = FinalizedType
                   /\ ~register(_final[t], enum_values).annotated
    /\ (last.op = "register" /\ last.cls \in TypeIds) =>
           (last.kind = "raise" /\ last.exc = FinalizedType)

C6_Witness ==
    /\ last.op = "register"
    /\ last.cls = "T"
    /\ last.kind = "raise"
    /\ _cache_strategy["T"] = "NO_CACHE"
    /\ Len(log) >= 1

\* ------------------------------------------------------------------ C7
C7_State ==
    \A t \in TypeIds :
        (status[t] = "defined" /\ _cache_strategy[t] = "EAGER_CACHE") =>
            /\ DOMAIN _instance_cache[t] = Members
            /\ Cardinality(DOMAIN _instance_cache[t]) = EnumSize
            /\ \A m1, m2 \in Members :
                   m1 # m2 => _instance_cache[t][m1] # _instance_cache[t][m2]
            /\ InstancesOf(t) = {_instance_cache[t][m] : m \in Members}
            /\ \A n \in CallsOf(t) :
                   log[n].obj = _instance_cache[t][log[n].member]

C7_Step ==
    \A t \in TypeIds :
        (status[t] = "defined" /\ _cache_strategy[t] = "EAGER_CACHE") =>
            _instance_cache'[t] = _instance_cache[t]

\* C7: a type defined with EAGER_CACHE has, from the end of its definition on
\* (so before any explicit construction call), exactly |E| cache entries, one
\* distinct instance per member, and they never change: every later T(m)
\* returns the instance that was built for m during the definition and no
\* further instance is built.
C7_EagerCache == []C7_State /\ [][C7_Step]_vars

C7_Witness ==
    /\ status["T"] = "defined"
    /\ _cache_strategy["T"] = "EAGER_CACHE"
    /\ Len(log) >= 2
    /\ log[1].member = log[2].member
    /\ log[1].obj = log[2].obj

\* ------------------------------------------------------------------ C8
\* C8: a type defined with LAZY_CACHE has an empty cache right after its
\* definition; in every later state the cache's keys are exactly the members
\* requested so far (k distinct members, k entries, one instance each), and
\* every request for a member returned the instance stored for it, so a
\* repeated request returns the first request's instance and adds nothing.
C8_LazyCache ==
    \A t \in TypeIds :
        (status[t] = "defined" /\ _cache_strategy[t] = "LAZY_CACHE") =>
            /\ Finalized(t) => _instance_cache[t] = <<>>
            /\ DOMAIN _instance_cache[t] = {log[n].member : n \in CallsOf(t)}
            /\ Cardinality(InstancesOf(t)) =
                   Cardinality({log[n].member : n \in CallsOf(t)})
            /\ \A n \in CallsOf(t) :
                   log[n].obj = _instance_cache[t][log[n].member]

C8_Witness ==
    /\ status["T"] = "defined"
    /\ _cache_strategy["T"] = "LAZY_CACHE"
    /\ Len(log) >= 2
    /\ log[1].member = log[2].member
    /\ Cardinality(DOMAIN _instance_cache["T"]) = 1

\* ------------------------------------------------------------------ C9
\* C9: for a type defined with NO_CACHE any two construction calls, also two
\* for the same member, return distinct instances, and the instance cache is
\* empty in every reachable state.
C9_NoCache ==
    \A t \in TypeIds :
        _cache_strategy[t] = "NO_CACHE" =>
            /\ _instance_cache[t] = <<>>
            /\ \A n1, n2 \in CallsOf(t) :
                   n1 # n2 => log[n1].obj # log[n2].obj

C9_Witness ==
    /\ status["T"] = "defined"
    /\ _cache_strategy["T"] = "NO_CACHE"
    /\ Len(log) >= 2
    /\ log[1].member = log[2].member

\* ----------------------------------------------------------------- C10
C10_State ==
    \A t \in TypeIds :
        _cache_strategy[t] \in {"EAGER_CACHE", "LAZY_CACHE"} =>
            /\ DOMAIN _instance_cache[t] \subseteq Members
            /\ \A m \in DOMAIN _instance_cache[t] :
                   /\ _instance_cache[t][m] \in 1..Len(heap)
                   /\ heap[_instance_cache[t][m]].cls = t
                   /\ heap[_instance_cache[t][m]].handler = _handlers[t][m]

C10_Step ==
    \A t \in TypeIds :
        \A m \in DOMAIN _instance_cache[t] :
            /\ m \in DOMAIN _instance_cache'[t]
            /\ _instance_cache'[t][m] = _instance_cache[t][m]

\* C10: under EAGER_CACHE and LAZY_CACHE the cache's keys are members of E,
\* the instance stored for m is bound to the handler registered for m, and
\* no step (construct, call, register) removes an entry or replaces its
\* instance.
C10_CacheEntriesStable == []C10_State /\ [][C10_Step]_vars

C10_Witness ==
    /\ status["T"] = "defined"
    /\ _cache_strategy["T"] = "LAZY_CACHE"
    /\ DOMAIN _instance_cache["T"] = Members
    /\ _handlers["T"][enum[1]] # _handlers["T"][enum[EnumSize]]
    /\ last.op = "call"

\* ----------------------------------------------------------------- C11
\* C11: a call of an instance of a finalized concrete type never fails with
\* the must-be-subclassed error, and what the bound handler did (the value it
\* returned or the error it raised) is the outcome of the call, unchanged.
C11_CallOutcomeIsHandlerOutcome ==
    last.op = "call" =>
        /\ last.exc # AbstractDispatch
        /\ last.result = last.handler_did

\* ----------------------------------------------------------------- C12
\* C12: using the base class directly (constructing from it and calling the
\* result) fails with the must-be-subclassed error, not with a generic
\* attribute or lookup error.
C12_BaseUseIsAbstractDispatch ==
    last.op = "base use" =>
        (last.kind = "raise" /\ last.exc = AbstractDispatch)

\* ----------------------------------------------------------------- C13
C13_Step ==
    /\ last'.op = "register" =>
           UNCHANGED <<base_final, _final, _handlers, _cache_strategy,
                       _instance_cache, heap, log>>
    /\ \A t \in TypeIds :
           status[t] = "defined" => _handlers'[t] = _handlers[t]

\* C13: a register call, whether it returns a decorator (on the open base
\* class) or raises (on a finalized type), changes no handler table, no
\* finalized flag, no cache strategy and no instance cache of any type nor
\* any instance; and no step at all changes the handler table of a type
\* whose definition has completed.
C13_RegisterChangesNoSharedState == [][C13_Step]_vars

C13_Witness ==
    /\ last.op = "register"
    /\ last.cls = "T"
    /\ last.kind = "raise"
    /\ _cache_strategy["T"] = "LAZY_CACHE"
    /\ DOMAIN _instance_cache["T"] = Members

\* ----------------------------------------------------------------- C14
ValidationErrors == {DuplicateHandler, ForeignMember, NonExhaustive}

C15_CheckOrder ==
    \A t \in TypeIds :
        DefinitionEnded(t) =>
            /\ ~NoRepeats(namespace[t])
                  => \E v \in Values : FailedWith(t, DuplicateHandler, {v})
            /\ (NoRepeats(namespace[t]) /\ ~NoForeign(namespace[t]))
                  => (last.kind = "raise" /\ last.exc = ForeignMember)
            /\ (/\ NoRepeats(namespace[t])
                 /\ NoForeign(namespace[t])
                 /\ Unhandled(namespace[t]) # {})
                  => (last.kind = "raise" /\ last.exc = NonExhaustive)

C15_Witness ==
    /\ \E v \in Members : FailedWith("T", DuplicateHandler, {v})
    /\ ~NoForeign(namespace["T"])
    /\ Unhandled(namespace["T"]) # {}

\* ----------------------------------------------------------------- C16
\* C16: a handler type is marked finalized only after the duplicate, foreign
\* member and exhaustiveness checks have passed: whenever a type is marked
\* finalized, its handler table is built and has exactly the members of E as
\* its keys.
C16_FinalizedOnlyAfterChecks ==
    \A t \in TypeIds : _final[t] => DOMAIN _handlers[t] = Members

\* ----------------------------------------------------------------- C17
CachingTypes ==
    {t \in TypeIds : _cache_strategy[t] \in {"EAGER_CACHE", "LAZY_CACHE"}}

C17_State ==
    \A t \in CachingTypes :
        /\ InstancesOf(t) =
               {_instance_cache[t][m] : m \in DOMAIN _instance_cache[t]}
        /\ Cardinality(InstancesOf(t)) =
               Cardinality(DOMAIN _instance_cache[t])
        /\ DOMAIN _instance_cache[t] \subseteq Members
        /\ \A m \in DOMAIN _instance_cache[t] :
               heap[_instance_cache[t][m]].handler = _handlers[t][m]
        /\ _cache_strategy[t] = "EAGER_CACHE" =>
               /\ (pc = "warmup" /\ cur = t) =>
                      DOMAIN _instance_cache[t] = 1..(idx - 1)
               /\ \A m1, m2 \in DOMAIN _instance_cache[t] :
                      m1 < m2 => _instance_cache[t][m1] < _instance_cache[t][m2]
               /\ status[t] = "defined" =>
                      Cardinality(InstancesOf(t)) = EnumSize

C17_Step ==
    \A t \in CachingTypes :
        /\ _cache_strategy'[t] = _cache_strategy[t]
        /\ \A m \in DOMAIN _instance_cache[t] :
               /\ m \in DOMAIN _instance_cache'[t]
               /\ _instance_cache'[t][m] = _instance_cache[t][m]
        /\ Cardinality(InstancesOf(t)') <= Cardinality(InstancesOf(t)) + 1
        /\ InstancesOf(t)' # InstancesOf(t) =>
               DOMAIN _instance_cache'[t] # DOMAIN _instance_cache[t]

\* C17: under EAGER_CACHE and LAZY_CACHE a handler type never has more than
\* one instance per member: its instances are exactly its cache entries, one
\* distinct instance per cached member, bound to that member's handler.  Eager
\* warm-up builds them one member at a time in enumeration order (the first
\* member's instance is the oldest) through the constructor user calls go
\* through, ends with exactly |E| instances, and no later construction call
\* replaces an entry or builds an instance for a member already cached.
C17_OneInstancePerMember == []C17_State /\ [][C17_Step]_vars

C17_Witness ==
    /\ status["T"] = "defined"
    /\ _cache_strategy["T"] = "EAGER_CACHE"
    /\ Len(heap) = EnumSize
    /\ Len(log) = 2
    /\ log[1].member # log[2].member
    /\ last.op = "construct"

\* ----------------------------------------------------------------- C18
\* Every order in which the n callables of a body can be enumerated.
Orders(n) ==
    {o \in [1..n -> 1..n] : \A i, j \in 1..n : i # j => o[i] # o[j]}

DeclaredOrder(n) == [i \in 1..n |-> i]

\* C18: when a definition ends, its outcome is the outcome of the validation
\* applied to its body, and that outcome is the same for every order in which the
\* body's callables are enumerated: either every order succeeds with the
\* handler table the type got (each member mapped to the same callable), or
\* every order fails with the kind of error the definition failed with.
C18_OrderIndependent ==
    \A t \in TypeIds :
        LET ns == namespace[t]
            run == __init_subclass__(ns, DeclaredOrder(Len(ns)))
        IN DefinitionEnded(t) =>
               /\ run.exc = last.exc
               /\ run.listed = last.listed
               /\ run.handlers = _handlers[t]
               /\ \A o \in Orders(Len(ns)) :
                      LET other == __init_subclass__(ns, o)
                      IN /\ other.exc = run.exc
                         /\ run.exc = "" => other.handlers = _handlers[t]
                         /\ (status[t] = "defined") = (other.exc = "")

C18_Witness ==
    /\ FailedWith("T", DuplicateHandler, {enum[1]})
    /\ Len(namespace["T"]) = MaxRegs
    /\ \E o \in Orders(MaxRegs) :
          __init_subclass__(namespace["T"], o).handlers # _handlers["T"]

\* ----------------------------------------------------------------- C19
\* The last operation was T(v) with v not a member of E.
ForeignConstruct(outcome) ==
    /\ outcome.op = "construct"
    /\ outcome.listed # {}
    /\ outcome.listed \cap Members = {}

C19_State ==
    /\ ForeignConstruct(last) =>
          /\ last.kind = "raise"
          /\ last.exc = "KeyError"
          /\ status[last.cls] = "defined"
    /\ \A t \in TypeIds : DOMAIN _instance_cache[t] \subseteq Members

C19_Step ==
    ForeignConstruct(last') =>
        UNCHANGED <<_instance_cache, _handlers, _final, _cache_strategy,
                    heap, log, status>>

\* C19: under every cache strategy T(v) for a value v outside E raises
\* KeyError, and the call changes nothing but the reported outcome: the
\* instance cache, the handler table, the instances and the record of earlier
\* constructions are what they were, so no entry for v exists and every later
\* T(m) starts from the state it would have started from without the call.
C19_ForeignConstructFails == []C19_State /\ [][C19_Step]_vars

C19_Witness ==
    /\ ForeignConstruct(last)
    /\ last.cls = "T"
    /\ _cache_strategy["T"] = "LAZY_CACHE"
    /\ Len(log) >= 1
    /\ DOMAIN _instance_cache["T"] # {}

\* ----------------------------------------------------------------- C20
ClassAttributes(t) ==
    <<_final[t], _handlers[t], _cache_strategy[t], _instance_cache[t]>>

C20_State ==
    /\ base_final = FALSE
    /\ (last.op = "register" /\ last.cls = "EnumHandler") => last.kind = "return"
    /\ \A t \in TypeIds :
          (status[t] \in {"defined", "failed"} /\ plan # <<>>) =>
              ENABLED ClassBegin
    /\ \A t \in TypeIds :
          /\ \A m \in DOMAIN _instance_cache[t] :
                 heap[_instance_cache[t][m]].cls = t
          /\ \A n \in CallsOf(t) :
                 /\ heap[log[n].obj].cls = t
                 /\ heap[log[n].obj].handler = _handlers[t][log[n].member]
    /\ \A t, u \in TypeIds :
          t # u =>
              {_instance_cache[t][m] : m \in DOMAIN _instance_cache[t]} \cap
              {_instance_cache[u][m] : m \in DOMAIN _instance_cache[u]} = {}

C20_Step ==
    /\ \A t \in TypeIds :
          ClassAttributes(t)' # ClassAttributes(t) =>
              \/ pc # "idle" /\ cur = t
              \/ pc = "idle" /\ last'.op = "construct" /\ last'.cls = t

\* C20: the base class's own _final stays FALSE whatever is defined, so
\* EnumHandler.register keeps returning and the next class statement can run
\* its body; a step of one type's definition changes the finalized mark, the
\* handler table, the cache strategy and the instance cache of that type
\* only, and a construction call changes the cache of the type it was made on
\* only; every cached or returned instance belongs to the type it was asked
\* of and is bound to that type's handler, and two types over the same
\* enumeration never share an instance.
C20_TypesAreIsolated == []C20_State /\ [][C20_Step]_vars

C20_Witness ==
    /\ status["T"] = "defined"
    /\ status["U"] = "defined"
    /\ _cache_strategy["T"] = "LAZY_CACHE"
    /\ _cache_strategy["U"] = "LAZY_CACHE"
    /\ Len(log) = 2
    /\ log[1].cls = "T"
    /\ log[2].cls = "U"
    /\ log[1].member = log[2].member
    /\ log[1].obj # log[2].obj
    /\ _instance_cache["T"] # <<>>
    /\ _instance_cache["U"] # <<>>
    /\ last.op = "register"
    /\ last.cls = "EnumHandler"

====
